---- MODULE Spec2Model ----
(***************************************************************************)
(* Model of the glossary generator tasks of unkeyed/marketing:             *)
(*   - createPrTask (create-pr.ts and its loop variant),                   *)
(*   - reviewGenerationTask / technicalReviewTask / seoReviewTask,         *)
(*   - technicalResearchTask / exaDomainSearchTask.                        *)
(* Every remote call (database, GitHub, model, search) is one step of the  *)
(* run that awaits it.                                                     *)
(***************************************************************************)
EXTENDS Integers, Sequences, FiniteSets, TLC

VARIABLES
  variant,    \* which createPrTask source is deployed: "single" | "loop"
  db,         \* the entries table: a sequence of rows in id order
  clock,      \* wall clock: Date.now() and new Date()
  branches,   \* GitHub: branches in listing order, each with the glossary file
  prs,        \* GitHub: pull requests in creation order
  run,        \* createPrTask runs: slot -> local state
  started,    \* number of createPrTask runs started so far
  failures,   \* history: number of GitHub calls of runs that failed
  created,    \* history: names of the branches created by runs
  opened,     \* history: urls of the pull requests opened by runs
  rv,         \* reviewGenerationTask: the run
  tech,       \* technicalReviewTask: the run
  seo,        \* seoReviewTask: the run
  rs,         \* technicalResearchTask: the run
  kids,       \* exaDomainSearchTask: the runs of the batch, and one triggered directly
  nodeEnv     \* process.env.NODE_ENV

prVars == <<variant, db, clock, branches, prs, run, started, failures, created, opened>>

reviewVars == <<rv, tech, seo>>

researchVars == <<rs, kids, nodeEnv>>

vars == <<prVars, reviewVars, researchVars>>

(***************************************************************************)
(* Bounds                                                                  *)
(***************************************************************************)
MaxRuns == 2        \* createPrTask runs per behaviour
MaxSlots == 2       \* runs that may exist at the same time
MaxFailures == 2    \* GitHub calls that fail although the repository allows them
B64LineLen == 1     \* symbols per line in the base64 GitHub returns
NumDomains == 2     \* domain categories searched (the program has four)

Null == 0           \* null / undefined url
Slots == 1..MaxSlots

(***************************************************************************)
(* Strings as sequences of characters                                      *)
(***************************************************************************)
StartsWith(s, p) == Len(p) <= Len(s) /\ SubSeq(s, 1, Len(p)) = p

Terms == {<<"A">>}

\* a second term, whose slug starts with the slug of the first
OtherTerm == <<"A", " ", "B">>

BothTerms == Terms \cup {OtherTerm}

ResearchTerm == <<"A">>

\* github-slugger: lower-case, blanks become dashes
SlugChar(c) ==
  IF c = "A" THEN "a" ELSE IF c = "B" THEN "b" ELSE IF c = " " THEN "-" ELSE c

Slug(term) == [i \in 1..Len(term) |-> SlugChar(term[i])]

BranchPrefix(slug) == <<"richard/add_">> \o slug

BaseBranch == <<"main">>

\* const filePath = `apps/www/content/glossary/${slug}.mdx`
FilePath(slug) == <<"apps/www/content/glossary/">> \o slug \o <<".mdx">>

NewBranchName(slug, timestamp) == BranchPrefix(slug) \o <<"_", ToString(timestamp)>>

(***************************************************************************)
(* Cache strategy                                                          *)
(***************************************************************************)
Strategies == {"omitted", "stale", "revalidate"}

\* default parameter: onCacheHit = "stale"
OnCacheHit(arg) == IF arg = "omitted" THEN "stale" ELSE arg

(***************************************************************************)
(* File content                                                            *)
(***************************************************************************)
NoFile == [exists |-> FALSE, content |-> <<>>]

File(c) == [exists |-> TRUE, content |-> c]

\* the glossary files a branch can hold
Paths == {FilePath(Slug(t)) : t \in BothTerms}

\* a tree with one glossary file
OnlyFile(path, file) == [p \in Paths |-> IF p = path THEN file ELSE NoFile]

\* frontmatter (with updatedAt) + dynamicSectionsContent, base64 encoded
ContentBase64(entry) == <<ToString(entry.ver), ToString(entry.updatedAt)>>

RECURSIVE Wrap(_)
\* the base64 of a file as GitHub's contents API returns it: in lines
Wrap(s) ==
  IF Len(s) <= B64LineLen THEN s \o <<"\n">>
  ELSE SubSeq(s, 1, B64LineLen) \o <<"\n">> \o Wrap(SubSeq(s, B64LineLen + 1, Len(s)))

\* (content as string).replace(/\n/g, "")
StripNewlines(s) == SelectSeq(s, LAMBDA c : c # "\n")

\* (a comparison that forgets the line breaks of the fetched base64)
IsIdenticalRaw(fetched, contentBase64) == fetched = contentBase64

\* the comparison of a fetched file with the generated content
IsIdentical(fetched, contentBase64) == StripNewlines(fetched) = contentBase64

(***************************************************************************)
(* Database                                                                *)
(***************************************************************************)
\* technicalResearch is a json column; NULL holds nothing
NoResearch == <<>>

Row(id, term, url, draft, takeaways) ==
  [id |-> id, inputTerm |-> term, createdAt |-> id, githubPrUrl |-> url,
   hasDraft |-> draft, hasTakeaways |-> takeaways, ver |-> 1, updatedAt |-> 0,
   technicalResearch |-> NoResearch]

NoRow == Row(0, <<>>, Null, FALSE, FALSE)

Matching(table, term) == {i \in 1..Len(table) : table[i].inputTerm = term}

\* db.query.entries.findFirst({ where: eq(inputTerm), orderBy: asc(createdAt) })
FindFirst(table, term) ==
  IF Matching(table, term) = {} THEN NoRow
  ELSE LET i == CHOOSE i \in Matching(table, term) :
                  \A j \in Matching(table, term) : table[i].createdAt <= table[j].createdAt
       IN table[i]

\* (an update that fills in the url only where none is stored)
SetGithubPrUrlIfUnset(table, term, url, now) ==
  [i \in 1..Len(table) |->
     IF table[i].inputTerm = term /\ table[i].githubPrUrl = Null
     THEN [table[i] EXCEPT !.githubPrUrl = url, !.updatedAt = now]
     ELSE table[i]]

\* db.update(entries).set({ githubPrUrl }).where(eq(inputTerm)); updatedAt is $onUpdate
SetGithubPrUrl(table, term, url, now) ==
  [i \in 1..Len(table) |->
     IF table[i].inputTerm = term
     THEN [table[i] EXCEPT !.githubPrUrl = url, !.updatedAt = now]
     ELSE table[i]]

(***************************************************************************)
(* GitHub                                                                  *)
(***************************************************************************)
Branch(name, files) == [name |-> name, file |-> files]

BranchIndex(name) == CHOOSE i \in 1..Len(branches) : branches[i].name = name

BranchExists(name) == \E i \in 1..Len(branches) : branches[i].name = name

FilesOf(name) == branches[BranchIndex(name)].file

FileOf(name, path) == FilesOf(name)[path]

\* (a filter that wants the branch name to equal the prefix)
RelevantBranchesExact(all, prefix) ==
  LET names == [i \in 1..Len(all) |-> all[i].name]
  IN SelectSeq(names, LAMBDA n : n = prefix)

\* allBranches.filter(b => b.name.startsWith(branchPrefix)).map(b => b.name)
RelevantBranches(all, prefix) ==
  LET names == [i \in 1..Len(all) |-> all[i].name]
  IN SelectSeq(names, LAMBDA n : StartsWith(n, prefix))

\* pulls.list({ head: branch, base, state: "open" })
OpenPrs(head) == SelectSeq(prs, LAMBDA p : p.head = head /\ p.open)

NextPrUrl == Len(prs) + 1


(***************************************************************************)
(* createPrTask: local state of a run                                      *)
(***************************************************************************)
NoSnap == [db |-> <<>>, branches |-> <<>>, prs |-> <<>>]

IdleRun ==
  [pc |-> "idle", input |-> <<>>, strategy |-> "omitted", slug |-> <<>>,
   entryUrl |-> Null, content |-> <<>>, targets |-> <<>>, checks |-> <<>>, idx |-> 0,
   branchFileExists |-> FALSE, branchFileIsIdentical |-> FALSE, fileOk |-> FALSE,
   newBranchName |-> <<>>, url |-> Null, status |-> "", path |-> "",
   log |-> <<>>, snap |-> NoSnap]

Active(r) == run[r].pc \notin {"idle", "done", "aborted"}

Op(op, br, ok) == [op |-> op, br |-> br, ok |-> ok]

Logged(rec, op, br, ok) == [rec EXCEPT !.log = Append(@, Op(op, br, ok))]

\* return { entry: { ..., githubPrUrl: url } }
Return(rec, url, path) ==
  [rec EXCEPT !.pc = "done", !.status = "ok", !.url = url, !.path = path]

\* throw new AbortTaskRunError(...)
Abort(rec, path) == [rec EXCEPT !.pc = "aborted", !.status = "abort", !.path = path]

(***************************************************************************)
(* createPrTask: the case switch                                           *)
(***************************************************************************)
Check(branch, exists, identical, prExists, openPr, fileOk, prsOk) ==
  [branch |-> branch, branchFileExists |-> exists, branchFileIsIdentical |-> identical,
   prExists |-> prExists, openPr |-> openPr, fileOk |-> fileOk, prsOk |-> prsOk]

\* create-pr.ts: a missing file counts as 'fileDiff-unchanged'
CaseKeySingle(c) ==
  [file |-> IF c.branchFileIsIdentical THEN "fileDiff-unchanged"
            ELSE IF c.branchFileExists THEN "fileDiff-changed"
            ELSE "fileDiff-unchanged",
   pr |-> c.prExists]

\* loop variant: identical | different | missing
CaseKeyLoop(c) ==
  [file |-> IF c.branchFileExists
            THEN (IF c.branchFileIsIdentical THEN "identical" ELSE "different")
            ELSE "missing",
   pr |-> c.prExists]

CaseKey(v, c) == IF v = "single" THEN CaseKeySingle(c) ELSE CaseKeyLoop(c)

\* (a switch that writes the file only where it is missing)
WritesFileMissingOnly(key) == key.file = "missing"

\* the cases whose first statement is createOrUpdateFileContents
WritesFile(key) == key.file \in {"fileDiff-changed", "different", "missing"}

\* the cases that call pulls.create
OpensPr(key) == ~key.pr

\* enter the switch for checks[i], or leave the loop for step 7
Dispatch(v, rec, i) ==
  IF i > Len(rec.checks)
  THEN [rec EXCEPT !.pc = "getRef", !.idx = i]
  ELSE LET c == rec.checks[i]
           key == CaseKey(v, c)
       IN [rec EXCEPT !.idx = i,
                      !.url = c.openPr,
                      !.pc = IF WritesFile(key) THEN "caseFile"
                             ELSE IF OpensPr(key) THEN "casePr"
                             ELSE "caseDb"]

\* (a failed write that goes on to the next branch in both sources)
CaseFailedContinue(v, rec) == Dispatch(v, rec, rec.idx + 1)

\* (a failed write that aborts in both sources)
CaseFailedAbort(v, rec) == Abort(rec, "case")

\* a failed write in a case: create-pr.ts throws, the loop variant continues
CaseFailed(v, rec) ==
  IF v = "single" THEN Abort(rec, "case") ELSE Dispatch(v, rec, rec.idx + 1)

(***************************************************************************)
(* GitHub calls as the runs see them. A call can fail for any reason; the  *)
(* API also refuses: a second open pull request for one head, a ref that   *)
(* exists, and a file write whose sha argument does not fit the branch     *)
(* (sha given for an existing file, none for a new one).                   *)
(***************************************************************************)
\* repos.getContent({ path, ref }) through tryCatch; 404 or error: no data
GetContent(ref, path, ok) ==
  IF ok /\ BranchExists(ref) /\ FileOf(ref, path).exists
  THEN File(Wrap(FileOf(ref, path).content))
  ELSE NoFile

\* a call the repository allows succeeds, or fails while failures are left
Outcomes(allowed) ==
  IF ~allowed THEN {FALSE} ELSE IF failures < MaxFailures THEN BOOLEAN ELSE {TRUE}

GetContentOutcomes(ref, path) ==
  IF BranchExists(ref) /\ FileOf(ref, path).exists THEN Outcomes(TRUE) ELSE {TRUE}

PutFileOutcomes(branch, path, withSha) ==
  Outcomes(BranchExists(branch) /\ (FileOf(branch, path).exists <=> withSha))

CreatePrOutcomes(head) ==
  Outcomes(BranchExists(head) /\ OpenPrs(head) = <<>>)

CreateRefOutcomes(name) == Outcomes(~BranchExists(name))

PutFile(branch, path, content) ==
  [i \in 1..Len(branches) |->
     IF branches[i].name = branch
     THEN Branch(branch, [branches[i].file EXCEPT ![path] = File(content)])
     ELSE branches[i]]

Pr(head, url) == [head |-> head, url |-> url, open |-> TRUE]

(***************************************************************************)
(* createPrTask.run                                                        *)
(***************************************************************************)
\* if (!entry?.dynamicSectionsContent)
NoDraft(entry) == entry.id = 0 \/ ~entry.hasDraft

\* (a run that does not look at the takeaways)
NoTakeawaysIgnored(entry) == FALSE

\* if (!entry.takeaways)
NoTakeaways(entry) == ~entry.hasTakeaways

\* (a cache check that ignores the strategy)
CacheHitAnyStrategy(existing, strategy) == existing.githubPrUrl # Null

\* if (existing?.githubPrUrl && onCacheHit === "stale")
CacheHit(existing, strategy) ==
  existing.githubPrUrl # Null /\ OnCacheHit(strategy) = "stale"

\* the branches whose file and PR state the run reads
Targets(v, relevant) ==
  IF v = "single"
  THEN (IF Len(relevant) > 0 THEN <<relevant[1]>> ELSE <<>>)
  ELSE relevant

\* tasks.trigger("create_pr", { input, onCacheHit }) for one of the terms
StartRunOf(r, terms) ==
  /\ ~Active(r)
  /\ started < MaxRuns
  /\ \E term \in terms, s \in Strategies :
       run' = [run EXCEPT ![r] =
                 [IdleRun EXCEPT !.pc = "findExisting", !.input = term, !.strategy = s,
                                 !.snap = [db |-> db, branches |-> branches, prs |-> prs]]]
  /\ started' = started + 1
  /\ UNCHANGED <<variant, db, clock, branches, prs, failures, created, opened, reviewVars, researchVars>>

StartRun(r) == StartRunOf(r, Terms)

\* a run for either term starts when no other run exists
StartEither(r) ==
  /\ r = 1
  /\ \A s \in Slots : ~Active(s)
  /\ StartRunOf(r, BothTerms)

\* a run starts when no other run exists
Start(r) ==
  /\ r = 1
  /\ \A s \in Slots : ~Active(s)
  /\ StartRun(r)

\* 1. Check for existing PR URL in DB (cache hit)
FindExisting(r) ==
  /\ run[r].pc = "findExisting"
  /\ LET rec == Logged(run[r], "findFirst", <<>>, TRUE)
         existing == FindFirst(db, rec.input)
     IN run' = [run EXCEPT ![r] =
                  IF CacheHit(existing, rec.strategy)
                  THEN Return(rec, existing.githubPrUrl, "cacheHit")
                  ELSE [rec EXCEPT !.pc = "loadEntry"]]
  /\ UNCHANGED <<variant, db, clock, branches, prs, started, failures, created, opened, reviewVars, researchVars>>

\* 2. Prepare MDX file content
LoadEntry(r) ==
  /\ run[r].pc = "loadEntry"
  /\ LET rec == Logged(run[r], "findFirst", <<>>, TRUE)
         entry == FindFirst(db, rec.input)
     IN run' = [run EXCEPT ![r] =
                  IF NoDraft(entry) THEN Abort(rec, "noDraft")
                  ELSE IF NoTakeaways(entry) THEN Abort(rec, "noTakeaways")
                  ELSE [rec EXCEPT !.pc = "checkMain",
                                   !.slug = Slug(entry.inputTerm),
                                   !.content = ContentBase64(entry),
                                   !.entryUrl = entry.githubPrUrl]]
  /\ UNCHANGED <<variant, db, clock, branches, prs, started, failures, created, opened, reviewVars, researchVars>>

\* 3. Check if file exists in main branch and if content is identical
CheckMain(r) ==
  /\ run[r].pc = "checkMain"
  /\ \E ok \in GetContentOutcomes(BaseBranch, FilePath(run[r].slug)) :
       LET rec == Logged(run[r], "getContent", BaseBranch, ok)
           mainFile == GetContent(BaseBranch, FilePath(rec.slug), ok)
           fileExistsInMain == mainFile.exists
           fileIsIdenticalInMain ==
             fileExistsInMain /\ IsIdentical(mainFile.content, rec.content)
       IN /\ run' = [run EXCEPT ![r] =
                       IF fileExistsInMain /\ fileIsIdenticalInMain
                       THEN Return(rec, rec.entryUrl, "identicalInMain")
                       ELSE [rec EXCEPT !.pc = "listBranches"]]
          /\ failures' = IF ok THEN failures ELSE failures + 1
  /\ UNCHANGED <<variant, db, clock, branches, prs, started, created, opened, reviewVars, researchVars>>

\* 4. List all branches and filter for relevant ones
ListBranches(r) ==
  /\ run[r].pc = "listBranches"
  /\ \E ok \in Outcomes(TRUE) :
       LET rec == Logged(run[r], "listBranches", <<>>, ok)
           relevantBranches == RelevantBranches(branches, BranchPrefix(rec.slug))
           targets == Targets(variant, relevantBranches)
       IN /\ run' = [run EXCEPT ![r] =
                       IF ~ok THEN Abort(rec, "listBranches")
                       ELSE IF targets = <<>> THEN [rec EXCEPT !.pc = "getRef"]
                       ELSE [rec EXCEPT !.pc = "getBranchFile", !.targets = targets,
                                        !.idx = 1]]
          /\ failures' = IF ok THEN failures ELSE failures + 1
  /\ UNCHANGED <<variant, db, clock, branches, prs, started, created, opened, reviewVars, researchVars>>

\* 5. Get file content in this branch (if it exists)
GetBranchFile(r) ==
  /\ run[r].pc = "getBranchFile"
  /\ LET branch == run[r].targets[run[r].idx]
     IN \E ok \in GetContentOutcomes(branch, FilePath(run[r].slug)) :
          LET rec == Logged(run[r], "getContent", branch, ok)
              branchFile == GetContent(branch, FilePath(rec.slug), ok)
          IN /\ run' = [run EXCEPT ![r] =
                          [rec EXCEPT !.pc = "listPrs",
                                      !.branchFileExists = branchFile.exists,
                                      !.branchFileIsIdentical =
                                         branchFile.exists
                                         /\ IsIdentical(branchFile.content, rec.content),
                                      !.fileOk = ok]]
             /\ failures' = IF ok THEN failures ELSE failures + 1
  /\ UNCHANGED <<variant, db, clock, branches, prs, started, created, opened, reviewVars, researchVars>>

\* 5. Check for open PRs from this branch; then 6. the switch
ListPrs(r) ==
  /\ run[r].pc = "listPrs"
  /\ LET branch == run[r].targets[run[r].idx]
     IN \E ok \in Outcomes(TRUE) :
          LET rec == Logged(run[r], "listPrs", branch, ok)
              found == IF ok THEN OpenPrs(branch) ELSE <<>>
              prExists == Len(found) > 0
              openPr == IF prExists THEN found[1].url ELSE Null
              c == Check(branch, rec.branchFileExists, rec.branchFileIsIdentical,
                         prExists, openPr, rec.fileOk, ok)
              rec2 == [rec EXCEPT !.checks = Append(@, c)]
          IN /\ run' = [run EXCEPT ![r] =
                          IF rec.idx < Len(rec.targets)
                          THEN [rec2 EXCEPT !.pc = "getBranchFile", !.idx = @ + 1]
                          ELSE Dispatch(variant, rec2, 1)]
             /\ failures' = IF ok THEN failures ELSE failures + 1
  /\ UNCHANGED <<variant, db, clock, branches, prs, started, created, opened, reviewVars, researchVars>>

\* 6. createOrUpdateFileContents in the reused branch (cases 3, 4, 5, 6)
CaseFile(r) ==
  /\ run[r].pc = "caseFile"
  /\ LET c == run[r].checks[run[r].idx]
         key == CaseKey(variant, c)
     IN \E ok \in PutFileOutcomes(c.branch, FilePath(run[r].slug), c.branchFileExists) :
          LET rec == Logged(run[r], "putFile", c.branch, ok)
          IN /\ run' = [run EXCEPT ![r] =
                          IF ~ok THEN CaseFailed(variant, rec)
                          ELSE [rec EXCEPT !.pc = IF OpensPr(key) THEN "casePr"
                                                  ELSE "caseDb"]]
             /\ branches' = IF ok THEN PutFile(c.branch, FilePath(rec.slug), rec.content) ELSE branches
             /\ failures' = IF ok THEN failures ELSE failures + 1
  /\ UNCHANGED <<variant, db, clock, prs, started, created, opened, reviewVars, researchVars>>

\* 6. pulls.create from the reused branch (cases 2, 4, 6)
CasePr(r) ==
  /\ run[r].pc = "casePr"
  /\ LET c == run[r].checks[run[r].idx]
     IN \E ok \in CreatePrOutcomes(c.branch) :
          LET rec == Logged(run[r], "createPr", c.branch, ok)
          IN /\ run' = [run EXCEPT ![r] =
                          IF ~ok THEN CaseFailed(variant, rec)
                          ELSE [rec EXCEPT !.pc = "caseDb", !.url = NextPrUrl]]
             /\ prs' = IF ok THEN Append(prs, Pr(c.branch, NextPrUrl)) ELSE prs
             /\ opened' = IF ok THEN opened \cup {NextPrUrl} ELSE opened
             /\ failures' = IF ok THEN failures ELSE failures + 1
  /\ UNCHANGED <<variant, db, clock, branches, started, created, reviewVars, researchVars>>

\* 6. db.update(entries).set({ githubPrUrl }) and return, in every case
CaseDb(r) ==
  /\ run[r].pc = "caseDb"
  /\ LET rec == run[r]
     IN IF rec.url # Null
        THEN /\ db' = SetGithubPrUrl(db, rec.input, rec.url, clock)
             /\ clock' = clock + 1
             /\ run' = [run EXCEPT ![r] =
                          Return(Logged(rec, "dbUpdate", <<>>, TRUE), rec.url, "reuse")]
        ELSE /\ run' = [run EXCEPT ![r] = Return(rec, rec.url, "reuse")]
             /\ UNCHANGED <<db, clock>>
  /\ UNCHANGED <<variant, branches, prs, started, failures, created, opened, reviewVars, researchVars>>

\* 7. Date.now() and git.getRef of the base branch
GetRef(r) ==
  /\ run[r].pc = "getRef"
  /\ \E ok \in Outcomes(TRUE) :
       LET rec == Logged(run[r], "getRef", BaseBranch, ok)
       IN /\ run' = [run EXCEPT ![r] =
                       IF ~ok THEN Abort(rec, "getRef")
                       ELSE [rec EXCEPT !.pc = "createRef",
                                        !.newBranchName = NewBranchName(rec.slug, clock)]]
          /\ failures' = IF ok THEN failures ELSE failures + 1
  /\ clock' = clock + 1
  /\ UNCHANGED <<variant, db, branches, prs, started, created, opened, reviewVars, researchVars>>

\* 7. git.createRef: the new branch starts at the base branch's commit
CreateRef(r) ==
  /\ run[r].pc = "createRef"
  /\ LET name == run[r].newBranchName
     IN \E ok \in CreateRefOutcomes(name) :
          LET rec == Logged(run[r], "createRef", name, ok)
          IN /\ run' = [run EXCEPT ![r] =
                          IF ~ok THEN Abort(rec, "createRef")
                          ELSE [rec EXCEPT !.pc = "createFile"]]
             /\ branches' = IF ok THEN Append(branches, Branch(name, FilesOf(BaseBranch)))
                            ELSE branches
             /\ created' = IF ok THEN created \cup {name} ELSE created
             /\ failures' = IF ok THEN failures ELSE failures + 1
  /\ UNCHANGED <<variant, db, clock, prs, started, opened, reviewVars, researchVars>>

\* (a file creation on the new branch whose failure is not looked at)
CreateFileUnchecked(r) ==
  /\ run[r].pc = "createFile"
  /\ LET name == run[r].newBranchName
     IN \E ok \in PutFileOutcomes(name, FilePath(run[r].slug), FALSE) :
          /\ run' = [run EXCEPT ![r] =
                       [Logged(run[r], "putFile", name, ok) EXCEPT !.pc = "createPr"]]
          /\ branches' = IF ok THEN PutFile(name, FilePath(run[r].slug), run[r].content) ELSE branches
          /\ failures' = IF ok THEN failures ELSE failures + 1
  /\ UNCHANGED <<variant, db, clock, prs, started, created, opened, reviewVars, researchVars>>

\* 7. createOrUpdateFileContents in the new branch (no sha)
CreateFile(r) ==
  /\ run[r].pc = "createFile"
  /\ LET name == run[r].newBranchName
     IN \E ok \in PutFileOutcomes(name, FilePath(run[r].slug), FALSE) :
          LET rec == Logged(run[r], "putFile", name, ok)
          IN /\ run' = [run EXCEPT ![r] =
                          IF ~ok THEN Abort(rec, "createFile")
                          ELSE [rec EXCEPT !.pc = "createPr"]]
             /\ branches' = IF ok THEN PutFile(name, FilePath(rec.slug), rec.content) ELSE branches
             /\ failures' = IF ok THEN failures ELSE failures + 1
  /\ UNCHANGED <<variant, db, clock, prs, started, created, opened, reviewVars, researchVars>>

\* 7. pulls.create from the new branch
CreatePr(r) ==
  /\ run[r].pc = "createPr"
  /\ LET name == run[r].newBranchName
     IN \E ok \in CreatePrOutcomes(name) :
          LET rec == Logged(run[r], "createPr", name, ok)
          IN /\ run' = [run EXCEPT ![r] =
                          IF ~ok THEN Abort(rec, "createPr")
                          ELSE [rec EXCEPT !.pc = "storePr", !.url = NextPrUrl]]
             /\ prs' = IF ok THEN Append(prs, Pr(name, NextPrUrl)) ELSE prs
             /\ opened' = IF ok THEN opened \cup {NextPrUrl} ELSE opened
             /\ failures' = IF ok THEN failures ELSE failures + 1
  /\ UNCHANGED <<variant, db, clock, branches, started, created, reviewVars, researchVars>>

\* 7. db.update(entries).set({ githubPrUrl }) and return
StorePr(r) ==
  /\ run[r].pc = "storePr"
  /\ db' = SetGithubPrUrl(db, run[r].input, run[r].url, clock)
  /\ clock' = clock + 1
  /\ run' = [run EXCEPT ![r] =
               Return(Logged(run[r], "dbUpdate", <<>>, TRUE), run[r].url, "newBranch")]
  /\ UNCHANGED <<variant, branches, prs, started, failures, created, opened, reviewVars, researchVars>>

(***************************************************************************)
(* technicalResearchTask and exaDomainSearchTask                           *)
(***************************************************************************)
domainCategories == <<"Official", "Community", "Neutral", "Google">>

DomainIds == 1..NumDomains

Direct == 0     \* the exaDomainSearchTask run that is triggered outside the batch

KidIds == {Direct} \cup DomainIds

Urls == <<"https://a", "https://b">>

NodeEnvs == {"production", "development"}

\* the domain of the run that is triggered outside the batch
DirectDomains == {domainCategories[1]}

\* { ...a, ...b }: the keys of b override those of a
Merge(a, b) == [k \in DOMAIN a \cup DOMAIN b |-> IF k \in DOMAIN b THEN b[k] ELSE a[k]]

\* searchResults.find((c) => c.url === result.url); spreading undefined adds nothing
FindByUrl(results, url) ==
  IF \E i \in 1..Len(results) : results[i].url = url
  THEN results[CHOOSE i \in 1..Len(results) :
                 /\ results[i].url = url
                 /\ \A j \in 1..(i - 1) : results[j].url # url]
  ELSE <<>>

\* one result of exa.searchAndContents
SearchResult(url) == [url |-> url, summary |-> "summary"]

\* what exa.searchAndContents resolves to
SearchOutcomes ==
  {<<SearchResult(Urls[1])>>, <<SearchResult(Urls[1]), SearchResult(Urls[2])>>}

\* searchResult.results.map((result) => ({ ...result, category: domainCategory }))
WithCategory(results, domain) ==
  [i \in 1..Len(results) |-> Merge(results[i], [category |-> domain])]

\* included.filter((result) => result.category.name === domain)
OfDomain(included, domain) ==
  SelectSeq(included, LAMBDA x : "category" \in DOMAIN x /\ x.category = domain)

\* self.filter((result, index) => index === self.findIndex((t) => t.url === result.url))
RECURSIVE Dedupe(_)
Dedupe(results) ==
  IF results = <<>> THEN <<>>
  ELSE LET front == SubSeq(results, 1, Len(results) - 1)
           last == results[Len(results)]
       IN IF \E i \in 1..Len(front) : front[i].url = last.url
          THEN Dedupe(front)
          ELSE Append(Dedupe(front), last)

\* runs.filter((result) => result.ok).flatMap((result) => result.output)
RECURSIVE FlatOutputs(_, _)
FlatOutputs(rs0, k) ==
  IF k > NumDomains THEN <<>>
  ELSE (IF rs0[k].ok THEN rs0[k].output ELSE <<>>) \o FlatOutputs(rs0, k + 1)

\* the json column: the value as MySQL keeps it, key by key in insertion order
KeyOrder == <<"inputTerm", "summary", "included", "excluded">>

Stringify(obj) ==
  LET pairs == [i \in 1..Len(KeyOrder) |->
                  <<KeyOrder[i], IF KeyOrder[i] \in DOMAIN obj THEN obj[KeyOrder[i]] ELSE <<>> >>]
  IN SelectSeq(pairs, LAMBDA p : p[1] \in DOMAIN obj)

\* what a read of the column gives; NULL and a missing row read as no keys at all
Parse(json) ==
  [k \in {json[i][1] : i \in 1..Len(json)} |->
     json[CHOOSE i \in 1..Len(json) : json[i][1] = k][2]]

\* (an update that reaches only the earliest row of the term)
SetTechnicalResearchFirstRow(table, term, value, now) ==
  [i \in 1..Len(table) |->
     IF table[i].inputTerm = term /\ table[i].id = FindFirst(table, term).id
     THEN [table[i] EXCEPT !.technicalResearch = Stringify(value), !.updatedAt = now]
     ELSE table[i]]

\* db.update(entries).set({ technicalResearch }).where(eq(inputTerm)); updatedAt is $onUpdate
SetTechnicalResearch(table, term, value, now) ==
  [i \in 1..Len(table) |->
     IF table[i].inputTerm = term
     THEN [table[i] EXCEPT !.technicalResearch = Stringify(value), !.updatedAt = now]
     ELSE table[i]]

\* db.query.entries.findFirst({ where: eq(inputTerm) }) without an order: any row of the term
FoundResearch(table, term) ==
  IF Matching(table, term) = {} THEN {Parse(NoResearch)}
  ELSE {Parse(table[i].technicalResearch) : i \in Matching(table, term)}

\* existing?.technicalResearch?.included && included.length > 0 && onCacheHit === "stale"
ResearchCacheHit(existing, onCacheHit) ==
  /\ "included" \in DOMAIN existing
  /\ Len(existing.included) > 0
  /\ onCacheHit = "stale"

\* onCacheHit: process.env.NODE_ENV === "production" ? onCacheHit : "stale"
ChildStrategy(env, onCacheHit) == IF env = "production" THEN onCacheHit ELSE "stale"

IdleKid ==
  [pc |-> "idle", domain |-> "", onCacheHit |-> "stale", found |-> <<>>,
   ok |-> FALSE, output |-> <<>>]

TriggeredKid(domain, onCacheHit) ==
  [pc |-> "read", domain |-> domain, onCacheHit |-> onCacheHit, found |-> <<>>,
   ok |-> FALSE, output |-> <<>>]

KidActive(k) == kids[k].pc \notin {"idle", "done"}

NoEvaluation == [evaluationSummary |-> "", included |-> <<>>, excluded |-> <<>>]

IdleResearch ==
  [pc |-> "idle", onCacheHit |-> "stale", alone |-> TRUE, hadEntry |-> FALSE,
   before |-> {}, searchResults |-> <<>>, evaluation |-> NoEvaluation,
   output |-> <<>>, returned |-> <<>>, status |-> "", path |-> ""]

\* const output = { inputTerm, summary, included, excluded }
ComposeOutput(inputTerm, evaluation, contents, searchResults) ==
  [inputTerm |-> inputTerm,
   summary |-> evaluation.evaluationSummary,
   included |-> [i \in 1..Len(contents) |->
                   Merge(contents[i], FindByUrl(searchResults, contents[i].url))],
   excluded |-> [i \in 1..Len(evaluation.excluded) |->
                   Merge(evaluation.excluded[i],
                         FindByUrl(searchResults, evaluation.excluded[i].url))]]

\* tasks.trigger("technical_research", { inputTerm, onCacheHit })
ResearchStart ==
  /\ rs.pc = "idle"
  /\ \E arg \in Strategies :
       rs' = [rs EXCEPT !.pc = "read", !.onCacheHit = OnCacheHit(arg),
                        !.alone = ~KidActive(Direct),
                        !.hadEntry = Matching(db, ResearchTerm) # {},
                        !.before = FoundResearch(db, ResearchTerm)]
  /\ UNCHANGED <<kids, nodeEnv, prVars, reviewVars>>

\* technicalResearchTask.run: the first read, the cache hit, the batch trigger
ResearchRead ==
  /\ rs.pc = "read"
  /\ \E existing \in FoundResearch(db, ResearchTerm) :
       IF ResearchCacheHit(existing, rs.onCacheHit)
       THEN /\ rs' = [rs EXCEPT !.pc = "done", !.status = "ok", !.path = "cacheHit",
                                !.returned = existing]
            /\ UNCHANGED kids
       ELSE /\ rs' = [rs EXCEPT !.pc = "batch"]
            /\ kids' = [k \in KidIds |->
                          IF k \in DomainIds
                          THEN TriggeredKid(domainCategories[k],
                                            ChildStrategy(nodeEnv, rs.onCacheHit))
                          ELSE kids[k]]
  /\ UNCHANGED <<nodeEnv, prVars, reviewVars>>

\* tasks.trigger("exa_domain_search", { inputTerm, onCacheHit, domain })
KidStartDirect ==
  /\ kids[Direct].pc = "idle"
  /\ \E domain \in DirectDomains, arg \in Strategies :
       kids' = [kids EXCEPT ![Direct] = TriggeredKid(domain, OnCacheHit(arg))]
  /\ rs' = IF rs.pc = "idle" THEN rs ELSE [rs EXCEPT !.alone = FALSE]
  /\ UNCHANGED <<nodeEnv, prVars, reviewVars>>

\* exaDomainSearchTask.run: the first read and the cache hit
KidRead(k) ==
  /\ kids[k].pc = "read"
  /\ \E existing \in FoundResearch(db, ResearchTerm) :
       kids' = [kids EXCEPT ![k] =
                  IF ResearchCacheHit(existing, kids[k].onCacheHit)
                  THEN [@ EXCEPT !.pc = "done", !.ok = TRUE,
                                 !.output = OfDomain(existing.included, kids[k].domain)]
                  ELSE [@ EXCEPT !.pc = "search"]]
  /\ UNCHANGED <<rs, nodeEnv, prVars, reviewVars>>

\* exaDomainSearchTask.run: exa.searchAndContents, which may throw
KidSearch(k) ==
  /\ kids[k].pc = "search"
  /\ \/ \E results \in SearchOutcomes :
          kids' = [kids EXCEPT ![k] = [@ EXCEPT !.pc = "write", !.found = results]]
     \/ kids' = [kids EXCEPT ![k] = [@ EXCEPT !.pc = "done", !.ok = FALSE]]
  /\ UNCHANGED <<rs, nodeEnv, prVars, reviewVars>>

\* exaDomainSearchTask.run: db.update of technicalResearch to { included }
KidWrite(k) ==
  /\ kids[k].pc = "write"
  /\ db' = SetTechnicalResearch(db, ResearchTerm,
                                [included |-> WithCategory(kids[k].found, kids[k].domain)],
                                clock)
  /\ kids' = [kids EXCEPT ![k] = [@ EXCEPT !.pc = "reread"]]
  /\ UNCHANGED <<rs, nodeEnv, reviewVars,
                 variant, clock, branches, prs, run, started, failures, created, opened>>

\* exaDomainSearchTask.run: the second read, the abort, the filtered return;
\* searchResult goes out of scope with the return
KidReread(k) ==
  /\ kids[k].pc = "reread"
  /\ \E updatedEntry \in FoundResearch(db, ResearchTerm) :
       kids' = [kids EXCEPT ![k] =
                  IF "included" \notin DOMAIN updatedEntry
                  THEN [@ EXCEPT !.pc = "done", !.ok = FALSE, !.found = <<>>]
                  ELSE [@ EXCEPT !.pc = "done", !.ok = TRUE, !.found = <<>>,
                                 !.output = OfDomain(updatedEntry.included, kids[k].domain)]]
  /\ UNCHANGED <<rs, nodeEnv, prVars, reviewVars>>

\* technicalResearchTask.run: the batch is over; filter and combine the results
ResearchCollect ==
  /\ rs.pc = "batch"
  /\ \A k \in DomainIds : kids[k].pc = "done"
  /\ rs' = [rs EXCEPT !.pc = "evaluate", !.searchResults = FlatOutputs(kids, 1)]
  /\ UNCHANGED <<kids, nodeEnv, prVars, reviewVars>>

\* technicalResearchTask.run: evaluateSearchResults.triggerAndWait(dedupedResults)
ResearchEvaluate ==
  /\ rs.pc = "evaluate"
  /\ LET deduped == Dedupe(rs.searchResults)
         Picked(keep) == [i \in 1..Len(deduped) |-> [url |-> deduped[i].url, keep |-> i \in keep]]
     IN \/ \E keep \in SUBSET (1..Len(deduped)) :
             rs' = [rs EXCEPT !.pc = "contents",
                      !.evaluation =
                         [evaluationSummary |-> "evaluation summary",
                          included |-> [i \in 1..Cardinality(keep) |->
                                          [url |-> SelectSeq(Picked(keep), LAMBDA p : p.keep)[i].url]],
                          excluded |-> [i \in 1..(Len(deduped) - Cardinality(keep)) |->
                                          [url |-> SelectSeq(Picked(keep), LAMBDA p : ~p.keep)[i].url,
                                           reason |-> "off topic"]]]]
        \/ rs' = [rs EXCEPT !.pc = "failed", !.status = "Error", !.path = "evaluation"]
  /\ UNCHANGED <<kids, nodeEnv, prVars, reviewVars>>

\* technicalResearchTask.run: exa.getContents, which may throw, and the composition
ResearchContents ==
  /\ rs.pc = "contents"
  /\ \/ LET contents == [i \in 1..Len(rs.evaluation.included) |->
                           [url |-> rs.evaluation.included[i].url, text |-> "text"]]
        IN rs' = [rs EXCEPT !.pc = "persist",
                            !.output = ComposeOutput(ResearchTerm, rs.evaluation, contents,
                                                     rs.searchResults)]
     \/ rs' = [rs EXCEPT !.pc = "failed", !.status = "Error", !.path = "contents"]
  /\ UNCHANGED <<kids, nodeEnv, prVars, reviewVars>>

\* technicalResearchTask.run: db.update of technicalResearch to the output
ResearchPersist ==
  /\ rs.pc = "persist"
  /\ db' = SetTechnicalResearch(db, ResearchTerm, rs.output, clock)
  /\ rs' = [rs EXCEPT !.pc = "reread"]
  /\ UNCHANGED <<kids, nodeEnv, reviewVars,
                 variant, clock, branches, prs, run, started, failures, created, opened>>

\* technicalResearchTask.run: the second read and the return
ResearchReturn ==
  /\ rs.pc = "reread"
  /\ \E updatedEntry \in FoundResearch(db, ResearchTerm) :
       rs' = [rs EXCEPT !.pc = "done", !.status = "ok", !.path = "composed",
                        !.returned = updatedEntry]
  /\ UNCHANGED <<kids, nodeEnv, prVars, reviewVars>>

ResearchIdle ==
  rs = IdleResearch /\ kids = [k \in KidIds |-> IdleKid] /\ nodeEnv = "development"

(***************************************************************************)
(* reviewGenerationTask, technicalReviewTask, seoReviewTask                *)
(***************************************************************************)
ReviewTerms == {"", "HATEOAS"}

ReviewContents == {"", "HATEOAS (Hypermedia as the Engine of Application State) is ..."}

Scores == {3, 8}

\* what generateObject resolves to: an object of evaluationResultSchema, or a throw
ModelObjects == [passed : BOOLEAN, score : Scores]

NoOutput == [task |-> "none", passed |-> FALSE, score |-> 0]

Output(task, object) == [task |-> task, passed |-> object.passed, score |-> object.score]

\* a finished child run as the parent sees it: { ok, output } or { ok: false, error }
RunOk(output) == [ok |-> TRUE, output |-> output]

RunError == [ok |-> FALSE, output |-> NoOutput]

IdleChild == [pc |-> "idle", term |-> "", content |-> "", keywords |-> FALSE, result |-> RunError]

Triggered(term, content, pc) ==
  [pc |-> pc, term |-> term, content |-> content, keywords |-> FALSE, result |-> RunError]

NoCombined ==
  [technical |-> NoOutput, seo |-> NoOutput, passed |-> FALSE, summary |-> <<>>]

IdleReview ==
  [pc |-> "idle", term |-> "", content |-> "", status |-> "", output |-> NoCombined]

\* (a check that looks at the content only)
InvalidInputContentOnly(term, content) == content = ""

\* if (!term || !content)
InvalidInput(term, content) == term = "" \/ content = ""

\* (the outputs without the filter: a failed run leaves a null in its place)
OutputsUnfiltered(runs) ==
  [i \in 1..Len(runs) |-> IF runs[i].ok THEN runs[i].output ELSE NoOutput]

\* runs.map(r => r.ok ? r.output : null).filter(Boolean)
Outputs(runs) ==
  LET mapped == [i \in 1..Len(runs) |-> IF runs[i].ok THEN runs[i].output ELSE NoOutput]
  IN SelectSeq(mapped, LAMBDA o : o # NoOutput)

\* const [technical, seo] = ...: a missing position is undefined
At(outputs, i) == IF i <= Len(outputs) THEN outputs[i] ELSE NoOutput

\* (a verdict that needs one passing review only)
PassedEither(technical, seoOut) == seoOut.passed \/ technical.passed

\* (seo?.passed ?? false) && (technical?.passed ?? false)
Passed(technical, seoOut) == seoOut.passed /\ technical.passed

Summary(technical, seoOut) ==
  << IF seoOut.passed THEN "SEO passed." ELSE "SEO did not pass.",
     IF technical.passed THEN "Technical review passed."
     ELSE "Technical review did not pass." >>

\* the value reviewGenerationTask.run returns
Combined(runs) ==
  LET technical == At(Outputs(runs), 1)
      seoOut == At(Outputs(runs), 2)
  IN [technical |-> technical, seo |-> seoOut,
      passed |-> Passed(technical, seoOut), summary |-> Summary(technical, seoOut)]

\* tasks.trigger("review_generation", { term, content })
ReviewStart ==
  /\ rv.pc = "idle" /\ tech.pc = "idle" /\ seo.pc = "idle"
  /\ \E term \in ReviewTerms, content \in ReviewContents :
       rv' = [IdleReview EXCEPT !.pc = "validate", !.term = term, !.content = content]
  /\ UNCHANGED <<tech, seo, prVars, researchVars>>

\* reviewGenerationTask.run up to batch.triggerByTaskAndWait
ReviewValidate ==
  /\ rv.pc = "validate"
  /\ IF InvalidInput(rv.term, rv.content)
     THEN /\ rv' = [rv EXCEPT !.pc = "failed", !.status = "AbortTaskRunError"]
          /\ UNCHANGED <<tech, seo>>
     ELSE /\ rv' = [rv EXCEPT !.pc = "waiting"]
          /\ tech' = Triggered(rv.term, rv.content, "generate")
          /\ seo' = Triggered(rv.term, rv.content, "keywords")
  /\ UNCHANGED <<prVars, researchVars>>

\* tasks.trigger("technical_review", { term, content })
TechStart ==
  /\ rv.pc = "idle" /\ tech.pc = "idle" /\ seo.pc = "idle"
  /\ \E term \in ReviewTerms, content \in ReviewContents :
       tech' = Triggered(term, content, "generate")
  /\ UNCHANGED <<rv, seo, prVars, researchVars>>

\* technicalReviewTask.run: generateObject, then return result.object or throw
TechGenerate ==
  /\ tech.pc = "generate"
  /\ \/ \E object \in ModelObjects :
          tech' = [tech EXCEPT !.pc = "done", !.result = RunOk(Output("technical", object))]
     \/ tech' = [tech EXCEPT !.pc = "done", !.result = RunError]
  /\ UNCHANGED <<rv, seo, prVars, researchVars>>

\* seoReviewTask.run: researchKeywords.triggerAndWait
SeoKeywords ==
  /\ seo.pc = "keywords"
  /\ \E ok \in BOOLEAN : seo' = [seo EXCEPT !.pc = "generate", !.keywords = ok]
  /\ UNCHANGED <<rv, tech, prVars, researchVars>>

\* seoReviewTask.run: generateObject, then return result.object or throw
SeoGenerate ==
  /\ seo.pc = "generate"
  /\ \/ \E object \in ModelObjects :
          seo' = [seo EXCEPT !.pc = "done", !.result = RunOk(Output("seo", object))]
     \/ seo' = [seo EXCEPT !.pc = "done", !.result = RunError]
  /\ UNCHANGED <<rv, tech, prVars, researchVars>>

\* reviewGenerationTask.run after the batch: combine and return
ReviewCombine ==
  /\ rv.pc = "waiting" /\ tech.pc = "done" /\ seo.pc = "done"
  /\ rv' = [rv EXCEPT !.pc = "done", !.status = "ok",
                      !.output = Combined(<<tech.result, seo.result>>)]
  /\ UNCHANGED <<tech, seo, prVars, researchVars>>

ReviewIdle == rv = IdleReview /\ tech = IdleChild /\ seo = IdleChild

PrIdle ==
  /\ variant = "single" /\ db = <<>> /\ clock = 1 /\ branches = <<>> /\ prs = <<>>
  /\ run = [r \in Slots |-> IdleRun] /\ started = 0 /\ failures = 0
  /\ created = {} /\ opened = {}

InitReview == ReviewIdle /\ PrIdle /\ ResearchIdle

NextReview ==
  \/ ReviewStart \/ ReviewValidate \/ TechStart \/ TechGenerate
  \/ SeoKeywords \/ SeoGenerate \/ ReviewCombine

\* the review tasks
SpecReview == InitReview /\ [][NextReview]_vars

(***************************************************************************)
(* Initial states: the entries of the term, and a repository with or       *)
(* without the glossary file on main and with earlier branches of the term *)
(***************************************************************************)
TheTerm == <<"A">>

StoredUrls == {Null, 99}

InitTables ==
  {<<>>}
  \cup {<<Row(1, TheTerm, u, d, t)>> : u \in StoredUrls, d \in BOOLEAN, t \in BOOLEAN}
  \cup {<<Row(1, TheTerm, u1, TRUE, TRUE), Row(2, TheTerm, u2, TRUE, TRUE)>> :
          u1 \in StoredUrls, u2 \in StoredUrls}

SameContent == <<"1", "0">>     \* what the entry generates before any update

OtherContent == <<"2", "0">>    \* an older version of the file

InitFiles == {NoFile, File(SameContent), File(OtherContent)}

OldBranch(tag) == BranchPrefix(Slug(TheTerm)) \o <<"_", tag>>

\* earlier branches of the term: <<file, has open PR>> each
InitBranchSets ==
  {<<>>}
  \cup {<<<<f, p>>>> : f \in InitFiles, p \in BOOLEAN}
  \cup {<<<<f, p>>, <<File(SameContent), q>>>> : f \in InitFiles, p \in BOOLEAN, q \in BOOLEAN}

InitBranches(mainFile, olds) ==
  <<Branch(BaseBranch, OnlyFile(FilePath(Slug(TheTerm)), mainFile))>>
  \o [i \in 1..Len(olds) |->
        Branch(OldBranch(IF i = 1 THEN "x" ELSE "y"),
               OnlyFile(FilePath(Slug(TheTerm)), olds[i][1]))]

RECURSIVE InitPrs(_, _)
InitPrs(olds, i) ==
  IF i > Len(olds) THEN <<>>
  ELSE LET rest == InitPrs(olds, i + 1)
       IN IF olds[i][2]
          THEN <<Pr(OldBranch(IF i = 1 THEN "x" ELSE "y"), 0)>> \o rest
          ELSE rest

Renumber(ps) == [i \in 1..Len(ps) |-> [ps[i] EXCEPT !.url = i]]

InitPr ==
  /\ variant \in {"single", "loop"}
  /\ db \in InitTables
  /\ clock = 1
  /\ \E mainFile \in InitFiles, olds \in InitBranchSets :
       /\ branches = InitBranches(mainFile, olds)
       /\ prs = Renumber(InitPrs(olds, 1))
  /\ run = [r \in Slots |-> IdleRun]
  /\ started = 0
  /\ failures = 0
  /\ created = {}
  /\ opened = {}
  /\ ReviewIdle
  /\ ResearchIdle

Step(r) ==
  \/ FindExisting(r) \/ LoadEntry(r) \/ CheckMain(r) \/ ListBranches(r)
  \/ GetBranchFile(r) \/ ListPrs(r) \/ CaseFile(r) \/ CasePr(r) \/ CaseDb(r)
  \/ GetRef(r) \/ CreateRef(r) \/ CreateFile(r) \/ CreatePr(r) \/ StorePr(r)

NextPr == \E r \in Slots : Start(r) \/ Step(r)

\* createPrTask, runs one after the other
SpecPr == InitPr /\ [][NextPr]_vars

(***************************************************************************)
(* Initial states of the research tasks: the rows of the term, with or     *)
(* without technical research from an earlier run                          *)
(***************************************************************************)
EarlierResearch ==
  [inputTerm |-> ResearchTerm,
   summary |-> "earlier summary",
   included |-> <<[url |-> Urls[2], text |-> "earlier text", summary |-> "summary",
                   category |-> domainCategories[1]]>>,
   excluded |-> <<>>]

StoredResearch ==
  {NoResearch, Stringify(EarlierResearch)}

ResearchRow(id, research) ==
  [Row(id, ResearchTerm, Null, FALSE, FALSE) EXCEPT !.technicalResearch = research]

ResearchTables ==
  {<<>>}
  \cup {<<ResearchRow(1, s)>> : s \in StoredResearch}
  \cup {<<ResearchRow(1, s), ResearchRow(2, s)>> : s \in StoredResearch}

InitResearch ==
  /\ db \in ResearchTables
  /\ nodeEnv \in NodeEnvs
  /\ rs = IdleResearch
  /\ kids = [k \in KidIds |-> IdleKid]
  /\ variant = "single" /\ clock = 1 /\ branches = <<>> /\ prs = <<>>
  /\ run = [r \in Slots |-> IdleRun] /\ started = 0 /\ failures = 0
  /\ created = {} /\ opened = {}
  /\ ReviewIdle

KidStep(k) == KidRead(k) \/ KidSearch(k) \/ KidWrite(k) \/ KidReread(k)

NextResearch ==
  \/ ResearchStart \/ ResearchRead \/ KidStartDirect
  \/ \E k \in KidIds : KidStep(k)
  \/ ResearchCollect \/ ResearchEvaluate \/ ResearchContents
  \/ ResearchPersist \/ ResearchReturn

\* the research tasks
SpecResearch == InitResearch /\ [][NextResearch]_vars

(***************************************************************************)
(* Two terms, the slug of one a prefix of the slug of the other: each has   *)
(* a drafted entry; the repository may hold a branch of the longer term    *)
(***************************************************************************)
TwoEntries == <<Row(1, TheTerm, Null, TRUE, TRUE), Row(2, OtherTerm, Null, TRUE, TRUE)>>

OtherBranch == BranchPrefix(Slug(OtherTerm)) \o <<"_", "x">>

NoFiles == [p \in Paths |-> NoFile]

InitPrTerms ==
  /\ variant \in {"single", "loop"}
  /\ db = TwoEntries
  /\ clock = 1
  /\ \/ branches = <<Branch(BaseBranch, NoFiles)>> /\ prs = <<>>
     \/ /\ branches = <<Branch(BaseBranch, NoFiles),
                        Branch(OtherBranch, OnlyFile(FilePath(Slug(OtherTerm)), File(SameContent)))>>
        /\ prs \in {<<>>, <<Pr(OtherBranch, 1)>>}
  /\ run = [r \in Slots |-> IdleRun]
  /\ started = 0
  /\ failures = 0
  /\ created = {}
  /\ opened = {}
  /\ ReviewIdle
  /\ ResearchIdle

NextPrTerms == \E r \in Slots : StartEither(r) \/ Step(r)

\* createPrTask for two terms, runs one after the other
SpecPrTerms == InitPrTerms /\ [][NextPrTerms]_vars

(***************************************************************************)
(* Two triggers of createPrTask for one term whose runs overlap: the       *)
(* entry is drafted and has no PR URL, the repository holds the base       *)
(* branch only                                                             *)
(***************************************************************************)
InitPrConc ==
  /\ variant \in {"single", "loop"}
  /\ db = <<Row(1, TheTerm, Null, TRUE, TRUE)>>
  /\ clock = 1
  /\ \E mainFile \in {NoFile, File(OtherContent)} :
       branches = InitBranches(mainFile, <<>>)
  /\ prs = <<>>
  /\ run = [r \in Slots |-> IdleRun]
  /\ started = 0
  /\ failures = 0
  /\ created = {}
  /\ opened = {}
  /\ ReviewIdle
  /\ ResearchIdle

\* a run starts in any free slot, whatever the other runs are doing
NextPrConc == \E r \in Slots : StartRun(r) \/ Step(r)

\* createPrTask, runs overlapping
SpecPrConc == InitPrConc /\ [][NextPrConc]_vars

(***************************************************************************)
(* Properties of createPrTask                                              *)
(***************************************************************************)
Finished(r) == run[r].pc \in {"done", "aborted"}

\* the run returned from the case switch of a reused branch
Reused(r) == run[r].pc = "done" /\ run[r].path = "reuse"

\* the branch state the returning case was chosen from
ReusedCheck(r) == run[r].checks[run[r].idx]

OkOps(r, op, br) ==
  {i \in 1..Len(run[r].log) :
     run[r].log[i].op = op /\ run[r].log[i].br = br /\ run[r].log[i].ok}

OpsOn(r, op, br) ==
  {i \in 1..Len(run[r].log) : run[r].log[i].op = op /\ run[r].log[i].br = br}

OpsOf(r, ops) == {i \in 1..Len(run[r].log) : run[r].log[i].op \in ops}

GitHubOps == {"getContent", "listBranches", "listPrs", "putFile", "createPr", "getRef", "createRef"}

GitHubWrites == {"putFile", "createPr", "createRef"}

Untouched(r) ==
  /\ db = run[r].snap.db
  /\ branches = run[r].snap.branches
  /\ prs = run[r].snap.prs

\* the repository as it was when the run started
FileAtStart(r, br) ==
  LET bs == run[r].snap.branches
  IN bs[CHOOSE i \in 1..Len(bs) : bs[i].name = br].file[FilePath(run[r].slug)]

HadOpenPr(r, br) ==
  \E i \in 1..Len(run[r].snap.prs) :
    run[r].snap.prs[i].head = br /\ run[r].snap.prs[i].open

\* C1: runs of one term, one after the other and with no GitHub call failing,
\* create at most one branch and open at most one pull request between them.
C1_Idempotent ==
  failures = 0 => Cardinality(created) <= 1 /\ Cardinality(opened) <= 1

\* a second run has reused the branch and the pull request the first run created
C1_Witness ==
  /\ failures = 0
  /\ started = 2
  /\ Cardinality(created) = 1
  /\ Cardinality(opened) = 1
  /\ Reused(1)
  /\ ReusedCheck(1).branch \in created
  /\ ReusedCheck(1).openPr \in opened

\* C2: a run that returns from a reused branch in which it found no glossary file
\* has created the file there, and has opened a pull request if there was none.
C2_MissingFileCreated ==
  \A r \in Slots :
    (Reused(r) /\ ReusedCheck(r).fileOk /\ ~ReusedCheck(r).branchFileExists)
      => /\ OkOps(r, "putFile", ReusedCheck(r).branch) # {}
         /\ FileOf(ReusedCheck(r).branch, FilePath(run[r].slug)) = File(run[r].content)
         /\ (~ReusedCheck(r).prExists => OkOps(r, "createPr", ReusedCheck(r).branch) # {})

IdenticalOnMain(r) ==
  run[r].snap.branches[1].file[FilePath(run[r].slug)] = File(run[r].content)

Earliest(table, term) ==
  LET rows == {table[i] : i \in Matching(table, term)}
  IN CHOOSE e \in rows : \A f \in rows : e.createdAt <= f.createdAt

HasStoredUrl(r) ==
  /\ Matching(run[r].snap.db, run[r].input) # {}
  /\ Earliest(run[r].snap.db, run[r].input).githubPrUrl # Null

\* C5: with the strategy "stale" or omitted and a stored url on the earliest
\* entry, the run returns that url after its first query and touches nothing;
\* with another strategy the run never returns from the cache check.
C5_CacheHit ==
  \A r \in Slots :
    Len(run[r].log) >= 1
      => /\ (HasStoredUrl(r) /\ run[r].strategy \in {"stale", "omitted"})
              => /\ run[r].pc = "done"
                 /\ run[r].status = "ok"
                 /\ run[r].url = Earliest(run[r].snap.db, run[r].input).githubPrUrl
                 /\ OpsOf(r, GitHubOps \cup {"dbUpdate"}) = {}
                 /\ Len(run[r].log) = 1
                 /\ Untouched(r)
         /\ (run[r].strategy \notin {"stale", "omitted"})
              => /\ run[r].path # "cacheHit"
                 /\ (Finished(r) => Len(run[r].log) >= 2)

\* the default strategy has hit the cache although a later entry has no url
C5_Witness ==
  \E r \in Slots :
    /\ run[r].pc = "done"
    /\ run[r].path = "cacheHit"
    /\ run[r].strategy = "omitted"
    /\ Len(run[r].snap.db) = 2
    /\ run[r].snap.db[2].githubPrUrl = Null

\* a run with the strategy "revalidate" has gone past a stored url
C5_WitnessRevalidate ==
  \E r \in Slots :
    /\ run[r].strategy = "revalidate"
    /\ HasStoredUrl(r)
    /\ Reused(r)

(***************************************************************************)
(* Properties of the review tasks                                          *)
(***************************************************************************)
ReviewReturned == rv.pc = "done"

BothSucceeded == tech.result.ok /\ seo.result.ok

OneFailed == tech.result.ok # seo.result.ok

\* the output of the child run that succeeded, when one did
Available == IF tech.result.ok THEN tech.result.output ELSE seo.result.output

Present(output) == output.task # "none"

\* C6: when exactly one of the two child runs has failed, the combined run does
\* not fail: it returns, its value holds the output of the other child run, and
\* its passed is false.
C6_PartialFailure ==
  /\ (rv.pc \in {"waiting", "done"} /\ tech.pc = "done" /\ seo.pc = "done" /\ OneFailed)
       => /\ rv.pc = "waiting" => ENABLED ReviewCombine
          /\ ReviewReturned
               => /\ rv.status = "ok"
                  /\ rv.output.passed = FALSE
                  /\ Available \in {rv.output.technical, rv.output.seo}
  /\ rv.pc = "failed" => tech.pc = "idle" /\ seo.pc = "idle"

\* the technical review failed, the SEO review passed, the combined run returned
C6_Witness ==
  /\ ReviewReturned
  /\ ~tech.result.ok
  /\ seo.result.ok
  /\ seo.result.output.passed
  /\ rv.output.passed = FALSE

C8_EmptyInputAborts ==
  (rv.pc \notin {"idle", "validate"} /\ (rv.term = "" \/ rv.content = ""))
    => /\ rv.pc = "failed"
       /\ rv.status = "AbortTaskRunError"
       /\ tech.pc = "idle"
       /\ seo.pc = "idle"

C8_Witness ==
  /\ rv.pc = "failed"
  /\ rv.term = ""
  /\ rv.content # ""
  /\ tech.pc = "idle"
  /\ seo.pc = "idle"

\* a technicalReviewTask run that was triggered on its own has finished
TechDirectDone == rv.pc = "idle" /\ tech.pc = "done"

\* C9: a technicalReviewTask run triggered on its own with empty content ends in
\* an error result.
C9_EmptyContentFails ==
  (TechDirectDone /\ tech.content = "") => ~tech.result.ok

(***************************************************************************)
(* Properties of the research tasks                                        *)
(***************************************************************************)
\* the run composed an output, stored it and returned
Composed == rs.pc = "done" /\ rs.path = "composed"

\* what the rows of the term hold
StoredNow == {Parse(db[i].technicalResearch) : i \in Matching(db, ResearchTerm)}

\* C10: when technicalResearchTask completes without a cache hit, for a term
\* that has an entry, and no other run for the term has been active since it
\* started, then the value it returns is what every row of the term holds, and
\* that value is the { inputTerm, summary, included, excluded } object this run
\* composed.
C10_ResearchPersisted ==
  (Composed /\ rs.hadEntry /\ rs.alone) =>
    /\ StoredNow = {rs.returned}
    /\ rs.returned = rs.output
    /\ DOMAIN rs.returned = {"inputTerm", "summary", "included", "excluded"}
    /\ rs.returned.inputTerm = ResearchTerm
    /\ rs.returned.summary = rs.evaluation.evaluationSummary

\* (the same without the condition that the run was alone)
C10_EvenWhenNotAlone ==
  (Composed /\ rs.hadEntry) => (StoredNow = {rs.returned} /\ rs.returned = rs.output)

\* a lone run on a term with two rows replaced what was stored by its own output
C10_Witness ==
  /\ Composed /\ rs.hadEntry /\ rs.alone
  /\ Cardinality(Matching(db, ResearchTerm)) = 2
  /\ Len(rs.output.included) > 0
  /\ Len(rs.output.excluded) > 0
  /\ rs.returned \notin rs.before

(***************************************************************************)
(* Further properties of createPrTask                                      *)
(***************************************************************************)
\* the branches of the run's term as the listing of the run gave them
Relevant(r) == RelevantBranches(run[r].snap.branches, BranchPrefix(Slug(run[r].input)))

Listed(r) ==
  \E i \in 1..Len(run[r].log) : run[r].log[i].op = "listBranches" /\ run[r].log[i].ok

CaseWrites == {"putFile", "createPr"}

NewBranchPcs == {"getRef", "createRef", "createFile", "createPr", "storePr"}

FailedWrite(r) ==
  \E i \in 1..Len(run[r].log) : run[r].log[i].op \in CaseWrites /\ ~run[r].log[i].ok

WritesOn(r, br) ==
  {i \in 1..Len(run[r].log) : run[r].log[i].op \in CaseWrites /\ run[r].log[i].br = br}

FailedOn(r, br) == \E i \in WritesOn(r, br) : ~run[r].log[i].ok

\* C12: in the loop variant a candidate branch is written only after every
\* candidate before it in the listing failed, a failed write never aborts the
\* run, the new-branch path is entered only after every candidate failed, and
\* the run returns from the first candidate whose case completes.
C12_NextCandidate ==
  \A r \in Slots :
    (variant = "loop" /\ Listed(r)) =>
      LET cs == Relevant(r)
      IN /\ \A j \in 1..Len(cs) :
              WritesOn(r, cs[j]) # {} =>
                \A i \in 1..(j - 1) :
                  /\ FailedOn(r, cs[i])
                  /\ \A a \in WritesOn(r, cs[i]), b \in WritesOn(r, cs[j]) : a < b
         /\ (run[r].pc \in NewBranchPcs \/ OpsOf(r, {"getRef"}) # {}) =>
              \A j \in 1..Len(cs) : FailedOn(r, cs[j])
         /\ Reused(r) =>
              /\ run[r].idx \in 1..Len(cs)
              /\ ~FailedOn(r, cs[run[r].idx])
              /\ \A i \in 1..(run[r].idx - 1) : FailedOn(r, cs[i])
              /\ \A j \in (run[r].idx + 1)..Len(cs) : WritesOn(r, cs[j]) = {}
         /\ run[r].path # "case"

\* a run of the loop variant failed on the first candidate and returned from the second
C12_Witness ==
  /\ variant = "loop"
  /\ Listed(1) /\ Len(Relevant(1)) = 2
  /\ Reused(1) /\ run[1].idx = 2
  /\ FailedOn(1, Relevant(1)[1])
  /\ WritesOn(1, Relevant(1)[2]) # {}

\* a run of the loop variant took the new-branch path after both candidates failed
C12_WitnessNewBranch ==
  /\ variant = "loop"
  /\ Listed(1) /\ Len(Relevant(1)) = 2
  /\ run[1].pc = "done" /\ run[1].path = "newBranch"

\* the calls of step 7 in the order of the source
NewBranchSteps == <<"getRef", "createRef", "putFile", "createPr", "dbUpdate">>

\* where step 7 leaves the run after its k-th call succeeded
NewBranchPcAfter == <<"createRef", "createFile", "createPr", "storePr", "done">>

\* the part of the run's log that starts at git.getRef
NewBranchLog(r) ==
  LET log == run[r].log
      g == CHOOSE i \in 1..Len(log) : log[i].op = "getRef"
  IN SubSeq(log, g, Len(log))

\* C13: on the new-branch path the calls are getRef, createRef, the file
\* creation, pulls.create and the database update, in this order and each on
\* the new branch; a call is made only when every call before it succeeded, and
\* a failed call aborts the run, which then has written nothing to the database.
C13_NewBranchOrder ==
  \A r \in Slots :
    OpsOf(r, {"getRef"}) # {} =>
      LET tail == NewBranchLog(r)
          n == Len(tail)
      IN /\ n <= Len(NewBranchSteps)
         /\ \A k \in 1..n : tail[k].op = NewBranchSteps[k]
         /\ \A k \in 1..(n - 1) : tail[k].ok
         /\ \A k \in 2..n : k <= 4 => tail[k].br = run[r].newBranchName
         /\ IF tail[n].ok
            THEN run[r].pc = NewBranchPcAfter[n]
            ELSE /\ run[r].pc = "aborted"
                 /\ run[r].path = NewBranchSteps[n] \/ (n = 3 /\ run[r].path = "createFile")
                 /\ OpsOf(r, {"dbUpdate"}) = {}
                 /\ db = run[r].snap.db
         /\ (n >= 2 /\ tail[2].ok) => BranchExists(run[r].newBranchName)
         /\ (n >= 3 /\ tail[3].ok) => FileOf(run[r].newBranchName, FilePath(run[r].slug)).exists
         /\ (n >= 4 /\ tail[4].ok) => OpenPrs(run[r].newBranchName) # <<>>
         /\ n = 5 => FindFirst(db, run[r].input).githubPrUrl = run[r].url

\* a run created the branch, failed to create the file in it and aborted
C13_Witness ==
  /\ OpsOf(1, {"getRef"}) # {}
  /\ Len(NewBranchLog(1)) = 3
  /\ ~NewBranchLog(1)[3].ok
  /\ run[1].pc = "aborted"
  /\ BranchExists(run[1].newBranchName)

\* a run went through all five calls of the new-branch path
C13_WitnessStored ==
  /\ OpsOf(1, {"getRef"}) # {}
  /\ Len(NewBranchLog(1)) = 5
  /\ run[1].pc = "done"

\* the pull request of the url is open, and the run saw it in a listing or created it
ReportedToRun(r, url) ==
  \E i \in 1..Len(prs) :
    /\ prs[i].url = url /\ prs[i].open
    /\ \/ OkOps(r, "createPr", prs[i].head) # {} /\ url \in opened
       \/ OkOps(r, "listPrs", prs[i].head) # {} /\ HadOpenPr(r, prs[i].head)

\* C14: when a run (alone) has returned, the url it returned is the url stored
\* on the term's entry; the table changes only by the run's db.update, and
\* then every row of the term holds the returned url, which is the url of an
\* open pull request that the run found in a listing or created.
C14_ReturnedIsStored ==
  \A r \in Slots :
    /\ run[r].pc = "done" => run[r].url = FindFirst(db, run[r].input).githubPrUrl
    /\ (run[r].pc # "idle" /\ db # run[r].snap.db) =>
         /\ run[r].pc = "done"
         /\ OpsOf(r, {"dbUpdate"}) # {}
         /\ \A i \in Matching(db, run[r].input) : db[i].githubPrUrl = run[r].url
    /\ OpsOf(r, {"dbUpdate"}) # {} =>
         /\ run[r].url # Null
         /\ ReportedToRun(r, run[r].url)

\* a run with "revalidate" replaced a stored url by the url of the pull request it opened
C14_Witness ==
  /\ run[1].pc = "done"
  /\ OpsOf(1, {"dbUpdate"}) # {}
  /\ FindFirst(run[1].snap.db, run[1].input).githubPrUrl \notin {Null, run[1].url}
  /\ run[1].url \in opened

\* a run returned the null url of the entry because main already had the file
C14_WitnessNull ==
  /\ run[1].pc = "done" /\ run[1].path = "identicalInMain"
  /\ run[1].url = Null

\* the entry of the run's term as the table held it when the run started
EntryAtStart(r) == FindFirst(run[r].snap.db, run[r].input)

\* C15: without a cache hit, a run whose term has no entry, or an entry
\* without draft or without takeaways, gets no further than the second read:
\* it aborts with AbortTaskRunError, has made no GitHub call, and repository
\* and table are as they were.
C15_AbortsBeforeGitHub ==
  \A r \in Slots :
    (/\ run[r].pc # "idle"
     /\ ~CacheHit(EntryAtStart(r), run[r].strategy)
     /\ \/ EntryAtStart(r).id = 0
        \/ ~EntryAtStart(r).hasDraft
        \/ ~EntryAtStart(r).hasTakeaways) =>
      /\ run[r].pc \in {"findExisting", "loadEntry", "aborted"}
      /\ run[r].pc = "aborted" =>
           /\ run[r].status = "abort"
           /\ run[r].path \in {"noDraft", "noTakeaways"}
      /\ OpsOf(r, GitHubOps) = {}
      /\ Untouched(r)

\* a run for an entry with a draft but without takeaways aborted
C15_Witness ==
  /\ run[1].pc = "aborted" /\ run[1].path = "noTakeaways"
  /\ EntryAtStart(1).id # 0 /\ EntryAtStart(1).hasDraft /\ ~EntryAtStart(1).hasTakeaways
  /\ branches # <<>>

\* a run for a term without an entry aborted
C15_WitnessNoEntry ==
  /\ run[1].pc = "aborted" /\ run[1].path = "noDraft"
  /\ EntryAtStart(1).id = 0

\* C16: a run calls pulls.create for a reused branch with success only when
\* its listing of the branch's open pull requests succeeded and was empty.
C16_PrOnlyAfterListing ==
  \A r \in Slots :
    \A j \in 1..Len(run[r].checks) :
      OkOps(r, "createPr", run[r].checks[j].branch) # {} =>
        (run[r].checks[j].prsOk /\ ~run[r].checks[j].prExists)

\* (the part of C16 that holds: no pull request is opened where the run saw one)
C16_NotWhereOneWasSeen ==
  \A r \in Slots :
    \A j \in 1..Len(run[r].checks) :
      OpsOn(r, "createPr", run[r].checks[j].branch) # {} => ~run[r].checks[j].prExists

\* the run in slot r is a second run with "revalidate" that started after a
\* first run had opened a pull request and stored its url, and no GitHub call failed
RerunAfterSuccess(r) ==
  /\ started = 2 /\ run[r].pc # "idle"
  /\ failures = 0
  /\ run[r].strategy = "revalidate"
  /\ \E i \in 1..Len(run[r].snap.prs) :
       /\ run[r].snap.prs[i].url \in opened
       /\ EntryAtStart(r).githubPrUrl = run[r].snap.prs[i].url

\* C17: a second run with a strategy other than "stale", directly after a first
\* run that opened the pull request and returned, makes no GitHub write.
C17_RerunWritesNothing ==
  \A r \in Slots : RerunAfterSuccess(r) => OpsOf(r, GitHubWrites) = {}

\* (what the second run does instead: it may commit the file again, to the
\* branch of the first run, but creates no branch and opens no pull request)
C17_RerunCreatesNothing ==
  \A r \in Slots :
    RerunAfterSuccess(r) => OpsOf(r, {"createRef", "createPr", "getRef"}) = {}

\* the branch name is `${branchPrefix}_${timestamp}` of the term
CreatedFor(name, term) ==
  /\ Len(name) = Len(BranchPrefix(Slug(term))) + 2
  /\ StartsWith(name, BranchPrefix(Slug(term)) \o <<"_">>)

\* C18: every branch (other than main) that a run reads or writes was created
\* for the run's own term, and the pull request whose url the run returns from a
\* reused or new branch has such a branch as its head.
C18_OwnBranchOnly ==
  \A r \in Slots :
    /\ \A i \in 1..Len(run[r].log) :
         run[r].log[i].br \notin {<<>>, BaseBranch} =>
           CreatedFor(run[r].log[i].br, run[r].input)
    /\ (run[r].pc = "done" /\ run[r].path \in {"reuse", "newBranch"} /\ run[r].url # Null) =>
         \E i \in 1..Len(prs) :
           prs[i].url = run[r].url /\ CreatedFor(prs[i].head, run[r].input)

\* C19: two runs of one term that overlap, with no GitHub call failing, leave
\* at most one branch of the term and at most one open pull request for it.
C19_OverlapCreatesOnce ==
  failures = 0 =>
    /\ Cardinality({i \in 1..Len(branches) :
                      StartsWith(branches[i].name, BranchPrefix(Slug(TheTerm)))}) <= 1
    /\ Cardinality({i \in 1..Len(prs) : prs[i].open}) <= 1

(***************************************************************************)
(* Further properties of the research tasks                                *)
(***************************************************************************)
\* the run k of the batch returns from its second read, no other trigger around
BatchKidReturns(k) ==
  /\ kids[Direct].pc = "idle"
  /\ kids[k].pc = "reread"
  /\ kids'[k].pc = "done"
  /\ kids'[k].ok

\* C20: each exaDomainSearchTask run of a batch returns exactly the results its
\* own search found, with its own domain category, whatever the other runs do.
C20_OwnResults ==
  [][\A k \in DomainIds :
       BatchKidReturns(k) =>
         kids'[k].output = WithCategory(kids[k].found, kids[k].domain)]_vars

\* (what the runs of a batch do return: their own results or none at all)
C20_OwnOrNothing ==
  [][\A k \in DomainIds :
       BatchKidReturns(k) =>
         kids'[k].output \in {WithCategory(kids[k].found, kids[k].domain), <<>>}]_vars

====
